---- MODULE Spec2Model ----
(***************************************************************************)
(* Model of the download scheduler of bowerbird-rs (src/src/downloader.rs): *)
(* the Downloader's admission loop, the spawned task executions, the       *)
(* submit calls send_one / send, the WaitGroup and wait(), and Drop.       *)
(* Every await point of the source is a separate step, so that the         *)
(* interleavings of a multi-threaded tokio runtime are all present.        *)
(***************************************************************************)
EXTENDS Integers, Sequences, FiniteSets, TLC

(* ------------------------------ bounds --------------------------------- *)
\* number of Tasks the producer submits in Spec (ids 0 .. NumTasks-1)
NumTasks == 2
\* number of Tasks the producer submits in SpecBurst
BurstTasks == 3
\* tasks sent in SpecQueue
QueueTasks == 5
\* number of Tasks, carrying hooks, the producer submits in SpecHooks
HookTasks == 2
\* `threads` argument of Downloader::new: the number of permits K
Threads == 1
\* number of concurrent callers of send_one / send
NumSubmitters == 1
\* longest vector handed to send()
MaxBatch == 2

\* largest TaskOptions::retries a task is given
MaxRetries == 2
\* number of bytes of the remote file
SrcLen == 2
\* number of waiters awaiting clones of one WaitGroup
NumWaiters == 2
\* number of add(1) ... done() clients of one WaitGroup
NumClients == 2

(* --------------------------- program constants ------------------------- *)
\* mpsc::channel::<Task>(1)
ChanCap == 1
\* Duration::from_secs(60), the window of retries_last_min
WindowSecs == 60
\* Duration::from_secs(5), the sleep before a retry
BackoffSecs == 5

Max2(a, b) == IF a >= b THEN a ELSE b
\* the ids Task::new hands out (TASK_ID.fetch_add(1)), in creation order
TaskIds == 0 .. (Max2(QueueTasks, Max2(NumTasks, Max2(BurstTasks, HookTasks))) - 1)
Submitters == 1 .. NumSubmitters
NoTask == -1

\* TaskStatus; the Error payload is not modelled
TaskStatus == {"Pending", "Running", "Error", "Success", "Skipped"}
Terminal == {"Error", "Success", "Skipped"}
\* value of a BTreeMap lookup that finds no entry
Absent == "Absent"

\* a lock is held by nobody, by a submit call, or by a task execution
Free == <<"free", 0>>
BySubmitter(s) == <<"submitter", s>>
ByTask(t) == <<"task", t>>

VARIABLES
    unsent,          \* ids of Tasks created but not yet handed to send_one/send
    outcome,         \* per task: what its download will return (set by the environment)
    spc,             \* per submitter: position inside send_one / send
    scall,           \* per submitter: the call in progress
    task_sender,     \* holder of the Mutex around the mpsc::Sender
    chan,            \* the intake channel's buffer (sequence of task ids)
    lpc,             \* position of the admission loop (main_handle)
    lcur,            \* the task the admission loop holds after recv
    permits,         \* available permits of the semaphore
    semClosed,       \* semaphore.close() was called
    holds,           \* task executions owning a permit
    pendLock,        \* holder of the tasks_pending write lock
    tasks_pending,   \* keys of tasks_pending
    tasks_running,   \* keys of tasks_running (JoinHandles)
    tasks_finished,  \* tasks_finished: id -> status stored, or Absent
    tpc,             \* per task: none / created / queued, then the position of its execution
    status,          \* per task: the status field of the Task value
    popped,          \* per task execution: the task it popped from tasks_pending
    hookCalls,       \* per task: the hook invocations, with the status they saw
    hookErrLogged,   \* per task: a hook returned Err and it was logged
    num,             \* WaitGroupInner.num (a negative n stands for 2^64 + n)
    waker,           \* WaitGroupInner.waker holds a registered waker
    woken,           \* the waiter's waker was woken
    doneCnt,         \* per task: number of waitgroup.done() calls it made
    mpc,             \* the owner of the Downloader: alive / inside wait / dropped
    aborted,         \* task executions whose JoinHandle::abort was called
    labort,          \* main_handle.abort() was called
    resent           \* ids that were popped from tasks_pending and sent to the channel again

\* Downloader::download and download_single_try, run for one task on its own
VARIABLES
    options,          \* task.options: path, dir, skip_exists, retries
    disk0,            \* the two files as they were when the task started
    final_file,       \* content of the file at the resolved path, or NoFile
    part_file,        \* content of the '.part' sibling, or NoFile
    dpc,              \* position inside download / download_single_try
    downloaded_len,   \* download_single_try's local downloaded_len
    body,             \* bytes of the response not yet read by resp.chunk()
    try_result,       \* what download_single_try returned to the match at line 460
    requests,         \* the requests handed to client.execute, in order
    server,           \* what the server does with a Range header, for the whole run
    events,           \* what the run did so far, in order
    retries_last_min, \* download's local Vec<Instant>
    tries,            \* download's local counter
    clock,            \* Instant::now(), in seconds
    dret              \* what download returned ("none" while it runs)

\* the WaitGroup on its own, awaited through clones by several waiters
VARIABLES
    wg_num,           \* WaitGroupInner.num
    wg_waker,         \* the waiter whose waker WaitGroupInner.waker holds, or NoWaiter
    wpc,              \* per waiter: position inside poll
    wnotified,        \* waiters whose waker was woken and that were not polled since
    cpc               \* per client: position inside add / done

engineVars == <<unsent, outcome, spc, scall, task_sender, chan, lpc, lcur, permits, semClosed,
                holds, pendLock, tasks_pending, tasks_running, tasks_finished, tpc, status,
                popped, hookCalls, hookErrLogged, num, waker, woken, doneCnt, mpc, aborted,
                labort, resent>>
dlVars == <<options, disk0, final_file, part_file, dpc, downloaded_len, body, try_result,
            requests, server, events, retries_last_min, tries, clock, dret>>
wgcVars == <<wg_num, wg_waker, wpc, wnotified, cpc>>

vars == <<engineVars, dlVars, wgcVars>>

subVars == <<unsent, outcome, spc, scall>>
loopVars == <<lpc, lcur>>
semVars == <<permits, semClosed, holds>>
mapVars == <<tasks_pending, tasks_running, tasks_finished>>
hookVars == <<hookCalls, hookErrLogged>>
wgVars == <<num, waker, woken, doneCnt>>
dropVars == <<aborted, labort>>
histVars == <<resent>>

NoCall == [kind |-> "none", tasks |-> <<>>, i |-> 0]

inputVars == <<options, disk0>>
diskVars == <<final_file, part_file>>
tryVars == <<downloaded_len, body, try_result>>
policyVars == <<retries_last_min, tries>>

\* a path at which no file exists, and a file with the given bytes
NoFile == [exists |-> FALSE, bytes |-> <<>>]
File(b) == [exists |-> TRUE, bytes |-> b]
\* a request without a Range header
NoRange == <<"none", 0>>
\* the callers of download run it for no task: the engine specifications
\* take the download's result from `outcome`
DownloadOff ==
    /\ options = [path |-> "none", dir |-> FALSE, skip_exists |-> FALSE, retries |-> 0]
    /\ disk0 = [final |-> NoFile, part |-> NoFile]
    /\ final_file = NoFile
    /\ part_file = NoFile
    /\ dpc = "off"
    /\ downloaded_len = 0
    /\ body = <<>>
    /\ try_result = "none"
    /\ requests = <<>>
    /\ server = "honours"
    /\ events = <<>>
    /\ retries_last_min = <<>>
    /\ tries = 0
    /\ clock = 0
    /\ dret = "none"

Waiters == 1 .. NumWaiters
Clients == 1 .. NumClients
NoWaiter == 0
\* no stand-alone WaitGroup exists
WaitGroupOff ==
    /\ wg_num = 0
    /\ wg_waker = NoWaiter
    /\ wpc = [w \in Waiters |-> "off"]
    /\ wnotified = {}
    /\ cpc = [c \in Clients |-> "off"]

(* ------------------------------ helpers -------------------------------- *)
Min(S) == CHOOSE x \in S : \A y \in S : x <= y

RECURSIVE SetToSeq(_)
\* a vector of tasks in creation (id) order
SetToSeq(S) == IF S = {} THEN <<>> ELSE <<Min(S)>> \o SetToSeq(S \ {Min(S)})

\* the n lowest ids of S
RECURSIVE Lowest(_, _)
Lowest(S, n) == IF n = 0 \/ S = {} THEN {} ELSE {Min(S)} \cup Lowest(S \ {Min(S)}, n - 1)

\* the vectors a caller may hand to send(): the producer submits its tasks in
\* creation order, up to MaxBatch of them in one call (possibly none)
Batches(S) == {SetToSeq(Lowest(S, n)) : n \in 0 .. MaxBatch}

\* what Self::download(client, &mut task).await can return
DownloadResults == {"Err", "Skipped", "Success"}

ResultSeq == <<"Success", "Err", "Skipped">>

\* the download results of a run: task t gets the (t + k)-th of ResultSeq
Rotation(k) == [t \in TaskIds |-> ResultSeq[((t + k) % 3) + 1]]

\* the state after Downloader::new, with the producer's tasks P created and
\* their download results drawn from O
EngineInit(P, O) ==
    /\ unsent = P
    /\ outcome \in O
    /\ spc = [s \in Submitters |-> "idle"]
    /\ scall = [s \in Submitters |-> NoCall]
    /\ task_sender = Free
    /\ chan = <<>>
    /\ lpc = "recv"
    /\ lcur = NoTask
    /\ permits = Threads
    /\ semClosed = FALSE
    /\ holds = {}
    /\ pendLock = Free
    /\ tasks_pending = {}
    /\ tasks_running = {}
    /\ tasks_finished = [t \in TaskIds |-> Absent]
    /\ tpc = [t \in TaskIds |-> IF t \in P THEN "created" ELSE "none"]
    /\ status = [t \in TaskIds |-> "Pending"]
    /\ popped = [t \in TaskIds |-> NoTask]
    /\ hookCalls = [t \in TaskIds |-> <<>>]
    /\ hookErrLogged = [t \in TaskIds |-> FALSE]
    /\ num = 0
    /\ waker = FALSE
    /\ woken = FALSE
    /\ doneCnt = [t \in TaskIds |-> 0]
    /\ mpc = "alive"
    /\ aborted = {}
    /\ labort = FALSE
    /\ resent = {}

\* an engine specification: the download and the WaitGroup are not run on
\* their own
InitWith(P, O) == EngineInit(P, O) /\ DownloadOff /\ WaitGroupOff

\* Spec: NumTasks tasks without hooks
Init == InitWith(0 .. (NumTasks - 1), {Rotation(k) : k \in 0 .. 2})

\* SpecBurst: BurstTasks tasks without hooks
InitBurst == InitWith(0 .. (BurstTasks - 1), {Rotation(k) : k \in 0 .. 2})

\* SpecQueue: QueueTasks tasks without hooks
InitQueue == InitWith(0 .. (QueueTasks - 1), {Rotation(2)})

\* SpecHooks: HookTasks tasks that carry both hooks
InitHooks == InitWith(0 .. (HookTasks - 1), {Rotation(k) : k \in 0 .. 2})

(* ------------------------- send_one / send ----------------------------- *)
AllIdle == \A s \in Submitters : spc[s] = "idle"

\* a caller enters send_one(task): Downloader::send_one needs &self, so the
\* Downloader is alive (not moved into wait, not dropped)
SendOneCall(s, t) ==
    /\ mpc = "alive"
    /\ spc[s] = "idle"
    /\ unsent # {}
    /\ t = Min(unsent)
    /\ unsent' = unsent \ {t}
    /\ scall' = [scall EXCEPT ![s] = [kind |-> "one", tasks |-> <<t>>, i |-> 1]]
    /\ spc' = [spc EXCEPT ![s] = "lock"]
    /\ UNCHANGED <<dlVars, wgcVars,
                   outcome, task_sender, chan, loopVars, semVars, pendLock, mapVars, tpc, status,
                   popped, hookVars, wgVars, mpc, dropVars, histVars>>

\* a caller enters send(tasks); an empty vector returns at once
SendCall(s, b) ==
    /\ mpc = "alive"
    /\ spc[s] = "idle"
    /\ b \in Batches(unsent)
    /\ IF b = <<>>
         THEN UNCHANGED <<unsent, scall, spc>>
         ELSE /\ unsent' = unsent \ {b[i] : i \in 1 .. Len(b)}
              /\ scall' = [scall EXCEPT ![s] = [kind |-> "batch", tasks |-> b, i |-> 1]]
              /\ spc' = [spc EXCEPT ![s] = "lock"]
    /\ UNCHANGED <<dlVars, wgcVars,
                   outcome, task_sender, chan, loopVars, semVars, pendLock, mapVars, tpc, status,
                   popped, hookVars, wgVars, mpc, dropVars, histVars>>

\* task_sender.lock().await
SendLock(s) ==
    /\ spc[s] = "lock"
    /\ task_sender = Free
    /\ task_sender' = BySubmitter(s)
    /\ spc' = [spc EXCEPT ![s] = "send"]
    /\ UNCHANGED <<dlVars, wgcVars,
                   outcome, unsent, scall, chan, loopVars, semVars, pendLock, mapVars, tpc, status,
                   popped, hookVars, wgVars, mpc, dropVars, histVars>>

\* does the submit call keep the sender lock until it returns?  send() binds
\* the guard to `lock`; send_one's guard is a temporary of the send statement
KeepsLockForAdd(c) == c.kind = "batch"

\* mutant of NextPut: the sender lock is taken anew for every task of the vector
NextPutRelock(c) == "lock"

\* where send() goes after a put that is not its last: the for loop sends the
\* next task under the guard taken before the loop
NextPut(c) == "send"

\* .send(task).await.unwrap(): waits for a free slot of the channel
SendPut(s) ==
    /\ spc[s] = "send"
    /\ Len(chan) < ChanCap
    /\ chan' = Append(chan, scall[s].tasks[scall[s].i])
    /\ tpc' = [tpc EXCEPT ![scall[s].tasks[scall[s].i]] = "queued"]
    /\ IF scall[s].i < Len(scall[s].tasks)
         THEN /\ scall' = [scall EXCEPT ![s].i = @ + 1]
              /\ spc' = [spc EXCEPT ![s] = NextPut(scall[s])]
              /\ task_sender' = IF NextPut(scall[s]) = "send" THEN task_sender ELSE Free
         ELSE /\ spc' = [spc EXCEPT ![s] = "add"]
              /\ task_sender' = IF KeepsLockForAdd(scall[s]) THEN task_sender ELSE Free
              /\ UNCHANGED scall
    /\ UNCHANGED <<dlVars, wgcVars,
                   outcome, unsent, loopVars, semVars, pendLock, mapVars, status,
                   popped, hookVars, wgVars, mpc, dropVars, histVars>>

\* mutant of AddAmount: send() adds 1 whatever the length of the vector
AddAmountOne(c) == 1

\* the amount send_one / send add to the waitgroup
AddAmount(c) == Len(c.tasks)

\* WaitGroup::add: num.fetch_add(n)
WaitGroupAdd(n) == num' = num + n

\* self.waitgroup.add(..), then the call returns (send() drops `lock` here)
SendAdd(s) ==
    /\ spc[s] = "add"
    /\ WaitGroupAdd(AddAmount(scall[s]))
    /\ task_sender' = IF KeepsLockForAdd(scall[s]) THEN Free ELSE task_sender
    /\ spc' = [spc EXCEPT ![s] = "idle"]
    /\ scall' = [scall EXCEPT ![s] = NoCall]
    /\ UNCHANGED <<dlVars, wgcVars,
                   outcome, unsent, chan, loopVars, semVars, pendLock, mapVars, tpc, status,
                   popped, hookVars, waker, woken, doneCnt, mpc, dropVars, histVars>>

(* --------------------------- admission loop ---------------------------- *)
\* task_receiver.recv().await
LoopRecv ==
    /\ lpc = "recv"
    /\ chan # <<>>
    /\ lcur' = Head(chan)
    /\ chan' = Tail(chan)
    /\ lpc' = "acquire"
    /\ UNCHANGED <<dlVars, wgcVars,
                   subVars, task_sender, semVars, pendLock, mapVars, tpc, status,
                   popped, hookVars, wgVars, mpc, dropVars, histVars>>

\* outcome of sem.clone().try_acquire_owned()
TryAcquire == IF semClosed THEN "Closed" ELSE IF permits > 0 THEN "Ok" ELSE "NoPermits"

\* match try_acquire_owned(): Ok spawns the task execution (the permit moves
\* into it), Closed breaks the loop, NoPermits goes on to tasks_pending
LoopAcquire ==
    /\ lpc = "acquire"
    /\ CASE TryAcquire = "Ok" ->
              /\ permits' = permits - 1
              /\ holds' = holds \cup {lcur}
              /\ tpc' = [tpc EXCEPT ![lcur] = "start"]
              /\ lpc' = "insert"
              /\ UNCHANGED <<lcur, semClosed>>
         [] TryAcquire = "Closed" ->
              /\ lpc' = "stopped"
              /\ lcur' = NoTask
              /\ UNCHANGED <<semVars, tpc>>
         [] TryAcquire = "NoPermits" ->
              /\ lpc' = "pend"
              /\ UNCHANGED <<lcur, semVars, tpc>>
    /\ UNCHANGED <<dlVars, wgcVars,
                   subVars, task_sender, chan, pendLock, mapVars, status,
                   popped, hookVars, wgVars, mpc, dropVars, histVars>>

\* tasks_running.lock().unwrap().insert(task_id, handle), after the spawn
LoopInsertRunning ==
    /\ lpc = "insert"
    /\ tasks_running' = tasks_running \cup {lcur}
    /\ lcur' = NoTask
    /\ lpc' = "recv"
    /\ UNCHANGED <<dlVars, wgcVars,
                   subVars, task_sender, chan, semVars, pendLock, tasks_pending,
                   tasks_finished, tpc, status, popped, hookVars, wgVars, mpc, dropVars,
                   histVars>>

\* tasks_pending.write().await.insert(task.id, task)
LoopInsertPending ==
    /\ lpc = "pend"
    /\ pendLock = Free
    /\ tasks_pending' = tasks_pending \cup {lcur}
    /\ lcur' = NoTask
    /\ lpc' = "recv"
    /\ UNCHANGED <<dlVars, wgcVars,
                   subVars, task_sender, chan, semVars, pendLock, tasks_running,
                   tasks_finished, tpc, status, popped, hookVars, wgVars, mpc, dropVars,
                   histVars>>

\* the aborted loop is dropped at an await (recv or the pending write lock);
\* the task it holds and the Receiver go with it
LoopCancel ==
    /\ labort
    /\ lpc \in {"recv", "pend"}
    /\ lpc' = "stopped"
    /\ lcur' = NoTask
    /\ UNCHANGED <<dlVars, wgcVars,
                   subVars, task_sender, chan, semVars, pendLock, mapVars, tpc, status,
                   popped, hookVars, wgVars, mpc, dropVars, histVars>>

(* --------------------------- task execution ---------------------------- *)
\* mutant of TaskStart: the execution starts without setting Running
TaskStartNoStatus(t) ==
    /\ tpc[t] = "start"
    /\ tpc' = [tpc EXCEPT ![t] = "download"]
    /\ UNCHANGED <<dlVars, wgcVars,
                   subVars, task_sender, chan, loopVars, semVars, pendLock, mapVars,
                   status, popped, hookVars, wgVars, mpc, dropVars, histVars>>

\* task.status = TaskStatus::Running, first statement of the spawned future
TaskStart(t) ==
    /\ tpc[t] = "start"
    /\ status' = [status EXCEPT ![t] = "Running"]
    /\ tpc' = [tpc EXCEPT ![t] = "download"]
    /\ UNCHANGED <<dlVars, wgcVars,
                   subVars, task_sender, chan, loopVars, semVars, pendLock, mapVars,
                   popped, hookVars, wgVars, mpc, dropVars, histVars>>

\* the status field right after the match arm on download's result was
\* entered: the Err arm assigns Error before its hook, the Ok arm assigns
\* `status` only at the end of the arm (Skipped has no hook before it)
StatusAfterDownload(r) ==
    CASE r = "Err" -> "Error"
      [] r = "Skipped" -> "Skipped"
      [] r = "Success" -> "Running"

\* mutant of ArmAfterDownload: the Skipped arm runs the on_success hook too
ArmAfterDownloadHookSkipped(r) == IF r = "Err" THEN "on_error" ELSE "on_success"

\* where the arm goes next
ArmAfterDownload(r) ==
    CASE r = "Err" -> "on_error"
      [] r = "Skipped" -> "finish"
      [] r = "Success" -> "on_success"

\* match Self::download(..).await
TaskDownload(t) ==
    /\ tpc[t] = "download"
    /\ status' = [status EXCEPT ![t] = StatusAfterDownload(outcome[t])]
    /\ tpc' = [tpc EXCEPT ![t] = ArmAfterDownload(outcome[t])]
    /\ UNCHANGED <<dlVars, wgcVars,
                   subVars, task_sender, chan, loopVars, semVars, pendLock, mapVars,
                   popped, hookVars, wgVars, mpc, dropVars, histVars>>

\* the status the arm leaves when its hook part is over: the Ok(Success) arm
\* ends with task.status = status
StatusAfterArm(arm, st) == IF arm = "on_success" THEN "Success" ELSE st

\* if let Some(hooks) .. if let Some(hook) = hooks.on_x.take(): `has` tells
\* whether the task carries that hook; the hook is called with &task
TaskHookCall(t, has) ==
    /\ tpc[t] \in {"on_error", "on_success"}
    /\ IF has
         THEN /\ hookCalls' = [hookCalls EXCEPT
                                 ![t] = Append(@, [hook |-> tpc[t], seen |-> status[t]])]
              /\ tpc' = [tpc EXCEPT ![t] = "in_hook"]
              /\ UNCHANGED status
         ELSE /\ status' = [status EXCEPT ![t] = StatusAfterArm(tpc[t], @)]
              /\ tpc' = [tpc EXCEPT ![t] = "finish"]
              /\ UNCHANGED hookCalls
    /\ UNCHANGED <<dlVars, wgcVars,
                   subVars, task_sender, chan, loopVars, semVars, pendLock, mapVars,
                   popped, hookErrLogged, wgVars, mpc, dropVars, histVars>>

HookResults == {"Ok", "Err"}

LastHook(t) == hookCalls[t][Len(hookCalls[t])].hook

\* mutant of TaskHookReturn: a hook's Err is propagated with `?`, which ends
\* the spawned future at once
TaskHookReturnPropagate(t, res) ==
    /\ tpc[t] = "in_hook"
    /\ hookErrLogged' = [hookErrLogged EXCEPT ![t] = @ \/ res = "Err"]
    /\ status' = [status EXCEPT ![t] = StatusAfterArm(LastHook(t), @)]
    /\ tpc' = [tpc EXCEPT ![t] = IF res = "Err" THEN "end" ELSE "finish"]
    /\ UNCHANGED <<dlVars, wgcVars,
                   subVars, task_sender, chan, loopVars, semVars, pendLock, mapVars,
                   popped, hookCalls, wgVars, mpc, dropVars, histVars>>

\* the hook's future completes; an Err is logged with error!() and dropped
TaskHookReturn(t, res) ==
    /\ tpc[t] = "in_hook"
    /\ hookErrLogged' = [hookErrLogged EXCEPT ![t] = @ \/ res = "Err"]
    /\ status' = [status EXCEPT ![t] = StatusAfterArm(LastHook(t), @)]
    /\ tpc' = [tpc EXCEPT ![t] = "finish"]
    /\ UNCHANGED <<dlVars, wgcVars,
                   subVars, task_sender, chan, loopVars, semVars, pendLock, mapVars,
                   popped, hookCalls, wgVars, mpc, dropVars, histVars>>

\* tasks_finished.write().await.insert(task.id, task)
TaskFinish(t) ==
    /\ tpc[t] = "finish"
    /\ tasks_finished' = [tasks_finished EXCEPT ![t] = status[t]]
    /\ tpc' = [tpc EXCEPT ![t] = "pop"]
    /\ UNCHANGED <<dlVars, wgcVars,
                   subVars, task_sender, chan, loopVars, semVars, pendLock, tasks_pending,
                   tasks_running, status, popped, hookVars, wgVars, mpc, dropVars,
                   histVars>>

\* BTreeMap::pop_first: the entry with the smallest key
PopFirst(m) == Min(m)

\* mutant of AfterPopFirst: the first entry is read but not removed
AfterPeekFirst(m) == m

\* what pop_first leaves in the map
AfterPopFirst(m) == m \ {PopFirst(m)}

\* if let Some((_, task)) = tasks_pending.write().await.pop_first(): the write
\* guard is a temporary of the scrutinee and lives to the end of the if-let
TaskPop(t) ==
    /\ tpc[t] = "pop"
    /\ pendLock = Free
    /\ IF tasks_pending = {}
         THEN /\ tpc' = [tpc EXCEPT ![t] = "remove"]
              /\ UNCHANGED <<pendLock, tasks_pending, popped>>
         ELSE /\ popped' = [popped EXCEPT ![t] = PopFirst(tasks_pending)]
              /\ tasks_pending' = AfterPopFirst(tasks_pending)
              /\ pendLock' = ByTask(t)
              /\ tpc' = [tpc EXCEPT ![t] = "lock_sender"]
    /\ UNCHANGED <<dlVars, wgcVars,
                   subVars, task_sender, chan, loopVars, semVars, tasks_running,
                   tasks_finished, status, hookVars, wgVars, mpc, dropVars, histVars>>

\* let locked_sender = task_sender.lock().await; drop(permit);
TaskLockSender(t) ==
    /\ tpc[t] = "lock_sender"
    /\ task_sender = Free
    /\ task_sender' = ByTask(t)
    /\ permits' = permits + 1
    /\ holds' = holds \ {t}
    /\ tpc' = [tpc EXCEPT ![t] = "resend"]
    /\ UNCHANGED <<dlVars, wgcVars,
                   subVars, chan, loopVars, semClosed, pendLock, mapVars, status,
                   popped, hookVars, wgVars, mpc, dropVars, histVars>>

\* locked_sender.send(task).await, its result ignored: waits for a free slot,
\* or fails at once when the Receiver is gone; the if-let body ends and drops
\* locked_sender and the tasks_pending write guard
TaskResend(t) ==
    /\ tpc[t] = "resend"
    /\ \/ /\ lpc # "stopped"
          /\ Len(chan) < ChanCap
          /\ chan' = Append(chan, popped[t])
          /\ resent' = resent \cup {popped[t]}
       \/ /\ lpc = "stopped"
          /\ UNCHANGED <<chan, resent>>
    /\ popped' = [popped EXCEPT ![t] = NoTask]
    /\ task_sender' = Free
    /\ pendLock' = Free
    /\ tpc' = [tpc EXCEPT ![t] = "remove"]
    /\ UNCHANGED <<dlVars, wgcVars,
                   subVars, loopVars, semVars, mapVars, status,
                   hookVars, wgVars, mpc, dropVars>>

\* tasks_running_cloned.lock().unwrap().remove(&task_id)
TaskRemoveRunning(t) ==
    /\ tpc[t] = "remove"
    /\ tasks_running' = tasks_running \ {t}
    /\ tpc' = [tpc EXCEPT ![t] = "done"]
    /\ UNCHANGED <<dlVars, wgcVars,
                   subVars, task_sender, chan, loopVars, semVars, pendLock, tasks_pending,
                   tasks_finished, status, popped, hookVars, wgVars, mpc, dropVars,
                   histVars>>

\* WaitGroup::done: fetch_sub(1) returns the old value; wake when old - 1 == 0.
\* AtomicWaker::wake takes the registered waker, if any, and wakes it.
WaitGroupDone ==
    /\ num' = num - 1
    /\ IF num - 1 = 0 /\ waker
         THEN waker' = FALSE /\ woken' = TRUE
         ELSE UNCHANGED <<waker, woken>>

\* waitgroup.done()
TaskDone(t) ==
    /\ tpc[t] = "done"
    /\ WaitGroupDone
    /\ doneCnt' = [doneCnt EXCEPT ![t] = @ + 1]
    /\ tpc' = [tpc EXCEPT ![t] = "end"]
    /\ UNCHANGED <<dlVars, wgcVars,
                   subVars, task_sender, chan, loopVars, semVars, pendLock, mapVars,
                   status, popped, hookVars, mpc, dropVars, histVars>>

\* mutant of OwnsPermit: the end of the future releases a permit even when
\* drop(permit) has run
OwnsPermitStill(t) == TRUE

\* does the execution still own the permit that was moved into it?
OwnsPermit(t) == t \in holds

\* the spawned future ends: `permit` is dropped here unless drop(permit) ran
TaskEnd(t) ==
    /\ tpc[t] = "end"
    /\ permits' = IF OwnsPermit(t) THEN permits + 1 ELSE permits
    /\ holds' = holds \ {t}
    /\ tpc' = [tpc EXCEPT ![t] = "ended"]
    /\ UNCHANGED <<dlVars, wgcVars,
                   subVars, task_sender, chan, loopVars, semClosed, pendLock, mapVars,
                   status, popped, hookVars, wgVars, mpc, dropVars, histVars>>

\* positions at which the execution is at an .await (or was not polled yet)
CancelPoints == {"start", "download", "in_hook", "finish", "pop", "lock_sender", "resend"}

\* an aborted execution is dropped at an await: its permit, the guards it
\* holds and the task it popped are dropped with it
TaskCancel(t) ==
    /\ t \in aborted
    /\ tpc[t] \in CancelPoints
    /\ tpc' = [tpc EXCEPT ![t] = "cancelled"]
    /\ permits' = IF t \in holds THEN permits + 1 ELSE permits
    /\ holds' = holds \ {t}
    /\ pendLock' = IF pendLock = ByTask(t) THEN Free ELSE pendLock
    /\ task_sender' = IF task_sender = ByTask(t) THEN Free ELSE task_sender
    /\ popped' = [popped EXCEPT ![t] = NoTask]
    /\ UNCHANGED <<dlVars, wgcVars,
                   subVars, chan, loopVars, semClosed, mapVars, status,
                   hookVars, wgVars, mpc, dropVars, histVars>>

(* ------------------------------ wait, Drop ----------------------------- *)
\* wait(self) takes the Downloader by value: no send_one/send is in progress
WaitCall ==
    /\ mpc = "alive"
    /\ AllIdle
    /\ mpc' = "poll"
    /\ UNCHANGED <<dlVars, wgcVars,
                   subVars, task_sender, chan, loopVars, semVars, pendLock, mapVars, tpc,
                   status, popped, hookVars, wgVars, dropVars, histVars>>

\* the test both loads of WaitGroup::poll make
PollReady(n) == n = 0

\* poll: if num.load() == 0 { return Ready }
WaitPollLoad ==
    /\ mpc = "poll"
    /\ mpc' = IF PollReady(num) THEN "returned" ELSE "register"
    /\ UNCHANGED <<dlVars, wgcVars,
                   subVars, task_sender, chan, loopVars, semVars, pendLock, mapVars, tpc,
                   status, popped, hookVars, wgVars, dropVars, histVars>>

\* poll: waker.register(cx.waker())
WaitPollRegister ==
    /\ mpc = "register"
    /\ waker' = TRUE
    /\ mpc' = "recheck"
    /\ UNCHANGED <<dlVars, wgcVars,
                   subVars, task_sender, chan, loopVars, semVars, pendLock, mapVars, tpc,
                   status, popped, hookVars, num, woken, doneCnt, dropVars, histVars>>

\* poll: if num.load() == 0 { Ready } else { Pending }
WaitPollRecheck ==
    /\ mpc = "recheck"
    /\ mpc' = IF PollReady(num) THEN "returned" ELSE "suspended"
    /\ UNCHANGED <<dlVars, wgcVars,
                   subVars, task_sender, chan, loopVars, semVars, pendLock, mapVars, tpc,
                   status, popped, hookVars, wgVars, dropVars, histVars>>

\* the woken waiter is polled again
WaitWoken ==
    /\ mpc = "suspended"
    /\ woken
    /\ woken' = FALSE
    /\ mpc' = "poll"
    /\ UNCHANGED <<dlVars, wgcVars,
                   subVars, task_sender, chan, loopVars, semVars, pendLock, mapVars, tpc,
                   status, popped, hookVars, num, waker, doneCnt, dropVars, histVars>>

\* Drop for Downloader: semaphore.close(), main_handle.abort(), abort() on
\* every handle in tasks_running
DropDownloader ==
    /\ semClosed' = TRUE
    /\ labort' = TRUE
    /\ aborted' = tasks_running
    /\ UNCHANGED <<dlVars, wgcVars,
                   subVars, task_sender, chan, loopVars, permits, holds, pendLock, mapVars,
                   tpc, status, popped, hookVars, wgVars, histVars>>

\* wait(self) ends: the Downloader it owns goes out of scope
WaitReturnDrop ==
    /\ mpc = "returned"
    /\ mpc' = "waited"
    /\ DropDownloader

\* the owner drops the Downloader without waiting; no &self call is running
EarlyDrop ==
    /\ mpc = "alive"
    /\ AllIdle
    /\ mpc' = "dropped"
    /\ DropDownloader

\* what a server does with a Range header
ServerModes == {"honours", "ignores"}

(* ----------------- Downloader::download, one task alone ---------------- *)
\* the bytes of the remote file
Source == [i \in 1 .. SrcLen |-> i]
\* a file that was at the final path before the task started
OldFile == File(<<0>>)
\* how long one request may take, in seconds
AttemptSecs == {0, 60}
\* the model follows the retry loop for this many tries
MaxTries == MaxRetries + 1

\* the TaskOptions a producer can give; dir is read only when path is None
\* (line 394), so it is left unset next to an explicit path
OptionsSet ==
    {o \in [path : {"none", "relative", "absolute"}, dir : BOOLEAN, skip_exists : BOOLEAN,
            retries : 0 .. MaxRetries] : o.path # "none" => ~o.dir}

\* the state in which Downloader::download is entered for a task: any
\* options, the final path absent or present, the '.part' sibling absent,
\* empty or holding a prefix of the remote file left by an earlier run
InitDownload ==
    /\ options \in OptionsSet
    /\ disk0 \in [final : {NoFile, OldFile},
                  part : {NoFile} \cup {File(SubSeq(Source, 1, n)) : n \in 0 .. (SrcLen - 1)}]
    /\ final_file = disk0.final
    /\ part_file = disk0.part
    /\ dpc = "check_path"
    /\ downloaded_len = 0
    /\ body = <<>>
    /\ try_result = "none"
    /\ requests = <<>>
    /\ server \in ServerModes
    /\ events = <<>>
    /\ retries_last_min = <<>>
    /\ tries = 0
    /\ clock = 0
    /\ dret = "none"
    /\ EngineInit({}, {Rotation(0)})
    /\ WaitGroupOff

\* an entry of `events`: what happened, and when
Ev(e, t) == [ev |-> e, at |-> t]

\* download returns r
DlReturn(r) == dpc' = "returned" /\ dret' = r

\* mutant of SkipsExisting: the skip_exists flag is read negated
SkipsExistingNegated(exists, skip_exists) == exists /\ ~skip_exists

\* p.exists() && task.options.skip_exists
SkipsExisting(exists, skip_exists) == exists /\ skip_exists

\* the checks on an explicit path, before anything else is done
DlCheckPath ==
    /\ dpc = "check_path"
    /\ IF options.path = "relative"
         THEN DlReturn("DownloadPathNotAbsolute")
              /\ events' = Append(events, Ev("DownloadPathNotAbsolute", clock))
         ELSE IF options.path = "absolute"
                   /\ SkipsExisting(final_file # NoFile, options.skip_exists)
                THEN DlReturn("Skipped") /\ UNCHANGED events
                ELSE dpc' = "build" /\ UNCHANGED <<dret, events>>
    /\ UNCHANGED <<engineVars, wgcVars, inputVars, diskVars, tryVars, requests,
                   server, policyVars,
                   clock>>

\* what the producer's request builder can return
BuildResults == {"Ok", "Err"}

\* let mut request = task.build_request(&client)?
DlBuild(res) ==
    /\ dpc = "build"
    /\ IF res = "Ok"
         THEN dpc' = "resolve" /\ UNCHANGED <<dret, events>>
         ELSE DlReturn("BuildRequest") /\ events' = Append(events, Ev("BuildRequest", clock))
    /\ UNCHANGED <<engineVars, wgcVars, inputVars, diskVars, tryVars, requests,
                   server, policyVars,
                   clock>>

\* a request as client.execute gets it; part_len is the length the '.part'
\* file has at that moment
Request(method, range, part) ==
    [method |-> method, range |-> range, part_len |-> Len(part.bytes)]

\* let path = match &task.options.path: an explicit path is taken as it is,
\* a dir needs the HEAD probe, neither is an error
DlResolve ==
    /\ dpc = "resolve"
    /\ IF options.path = "absolute"
         THEN dpc' = "skip_check" /\ UNCHANGED <<dret, events, requests>>
         ELSE IF options.dir
                THEN /\ requests' = Append(requests, Request("HEAD", NoRange, part_file))
                     /\ events' = Append(events, Ev("HEAD", clock))
                     /\ dpc' = "head_wait"
                     /\ UNCHANGED dret
                ELSE /\ DlReturn("DownloadPathNotSet")
                     /\ events' = Append(events, Ev("DownloadPathNotSet", clock))
                     /\ UNCHANGED requests
    /\ UNCHANGED <<engineVars, wgcVars, inputVars, diskVars, tryVars, server, policyVars,
                   clock>>

\* how the HEAD probe can end: a transport error, a response that yields a
\* file name (header or URL), a response that yields none
HeadResults == {"TransportError", "Named", "NoFileName"}

\* the HEAD probe completes
DlHeadResponse(res) ==
    /\ dpc = "head_wait"
    /\ CASE res = "TransportError" ->
              DlReturn("DownloadHTTP") /\ events' = Append(events, Ev("DownloadHTTP", clock))
         [] res = "NoFileName" ->
              DlReturn("DownloadPathNotSet") /\ events' = Append(events, Ev("DownloadPathNotSet", clock))
         [] OTHER -> dpc' = "skip_check" /\ UNCHANGED <<dret, events>>
    /\ UNCHANGED <<engineVars, wgcVars, inputVars, diskVars, tryVars, requests,
                   server, policyVars,
                   clock>>

\* if path.exists() && task.options.skip_exists { return Ok(Skipped) }
DlSkipCheck ==
    /\ dpc = "skip_check"
    /\ IF SkipsExisting(final_file # NoFile, options.skip_exists)
         THEN DlReturn("Skipped")
         ELSE dpc' = "mkdir" /\ UNCHANGED dret
    /\ UNCHANGED <<engineVars, wgcVars, inputVars, diskVars, tryVars, requests,
                   server, events,
                   policyVars, clock>>

\* how a filesystem operation can end
FsResults == {"Ok", "Err"}

\* fs::create_dir_all(p).await.context(error::DownloadIO)?
DlMkdir(res) ==
    /\ dpc = "mkdir"
    /\ IF res = "Ok"
         THEN dpc' = "open" /\ UNCHANGED <<dret, events>>
         ELSE DlReturn("DownloadIO") /\ events' = Append(events, Ev("DownloadIO", clock))
    /\ UNCHANGED <<engineVars, wgcVars, inputVars, diskVars, tryVars, requests,
                   server, policyVars,
                   clock>>

\* OpenOptions::new().write(true).create(true).open(&path_part): the file is
\* created when absent and keeps its content otherwise; then the locals of
\* the retry loop are set up
DlOpen(res) ==
    /\ dpc = "open"
    /\ IF res = "Ok"
         THEN /\ part_file' = IF part_file = NoFile THEN File(<<>>) ELSE part_file
              /\ retries_last_min' = <<clock>>
              /\ tries' = 1
              /\ dpc' = "seek"
              /\ UNCHANGED <<dret, events>>
         ELSE /\ DlReturn("DownloadIO")
              /\ events' = Append(events, Ev("DownloadIO", clock))
              /\ UNCHANGED <<part_file, policyVars>>
    /\ UNCHANGED <<engineVars, wgcVars, inputVars, final_file, tryVars, requests,
                   server, clock>>

\* download_single_try returns r to the match in download
TryReturn(r) == try_result' = r /\ dpc' = "match"

\* file.seek(SeekFrom::End(0)): the position, and downloaded_len, become the
\* file's length
DlSeek(res) ==
    /\ dpc = "seek"
    /\ IF res = "Ok"
         THEN /\ downloaded_len' = Len(part_file.bytes)
              /\ dpc' = "execute"
              /\ UNCHANGED <<try_result, events>>
         ELSE /\ TryReturn("DownloadIO")
              /\ events' = Append(events, Ev("DownloadIO", clock))
              /\ UNCHANGED downloaded_len
    /\ UNCHANGED <<engineVars, wgcVars, inputVars, diskVars, body, requests, server,
                   policyVars,
                   clock, dret>>

\* mutant of RangeHeader: a retry asks for the whole body again
RangeHeaderNever(len) == NoRange

\* mutant of RangeHeader: the header is added for an empty file too
RangeHeaderAlways(len) == <<"bytes", len>>

\* if downloaded_len > 0 { insert("Range", format!("bytes={}-", downloaded_len)) }
RangeHeader(len) == IF len > 0 THEN <<"bytes", len>> ELSE NoRange

\* client.execute(request) is called with the freshly built request
DlExecute ==
    /\ dpc = "execute"
    /\ requests' = Append(requests, Request("GET", RangeHeader(downloaded_len), part_file))
    /\ events' = Append(events, Ev("GET", clock))
    /\ dpc' = "response"
    /\ UNCHANGED <<engineVars, wgcVars, server, inputVars, diskVars, tryVars, policyVars, clock,
                   dret>>

\* the body of a 2xx response to a request with the given Range header
ResponseBody(range, mode) ==
    IF range = NoRange \/ mode = "ignores"
      THEN Source
      ELSE SubSeq(Source, range[2] + 1, SrcLen)

\* a server that honours Range answers 416 when the range starts at or
\* after the end of the file
Satisfiable(range, mode) == range = NoRange \/ mode = "ignores" \/ range[2] < SrcLen

\* how client.execute can end
ResponseKinds == {"TransportError", "Status", "Success"}

\* client.execute(request).await returns after d seconds; a non-2xx status
\* is turned into DownloadHTTPStatus
DlResponse(kind, d) ==
    /\ dpc = "response"
    /\ clock' = clock + d
    /\ CASE kind = "TransportError" ->
              /\ TryReturn("DownloadHTTP")
              /\ events' = Append(events, Ev("DownloadHTTP", clock + d))
              /\ UNCHANGED body
         [] kind = "Status" ->
              /\ TryReturn("DownloadHTTPStatus")
              /\ events' = Append(events, Ev("DownloadHTTPStatus", clock + d))
              /\ UNCHANGED body
         [] OTHER ->
              /\ Satisfiable(requests[Len(requests)].range, server)
              /\ body' = ResponseBody(requests[Len(requests)].range, server)
              /\ dpc' = "chunk"
              /\ UNCHANGED <<try_result, events>>
    /\ UNCHANGED <<engineVars, wgcVars, inputVars, diskVars, downloaded_len, requests,
                   server, policyVars, dret>>

\* how one round of the chunk loop can end
ChunkResults == {"Ok", "ChunkErr", "WriteErr"}

\* while let Some(chunk) = resp.chunk().await? { file.write_all(&chunk).await? }
\* with chunks of one byte; the end of the body ends the try with Ok(()); an
\* error return drops resp and what was left of its body
DlChunk(res) ==
    /\ dpc = "chunk"
    /\ IF body = <<>>
         THEN /\ res = "Ok"
              /\ TryReturn("Ok")
              /\ UNCHANGED <<part_file, downloaded_len, body, events>>
         ELSE CASE res = "Ok" ->
                   /\ part_file' = File(Append(part_file.bytes, Head(body)))
                   /\ body' = Tail(body)
                   /\ downloaded_len' = downloaded_len + 1
                   /\ events' = Append(events, Ev("write", clock))
                   /\ UNCHANGED <<try_result, dpc>>
                [] res = "ChunkErr" ->
                   /\ TryReturn("DownloadHTTP")
                   /\ events' = Append(events, Ev("DownloadHTTP", clock))
                   /\ body' = <<>>
                   /\ UNCHANGED <<part_file, downloaded_len>>
                [] OTHER ->
                   /\ TryReturn("DownloadIO")
                   /\ events' = Append(events, Ev("DownloadIO", clock))
                   /\ body' = <<>>
                   /\ UNCHANGED <<part_file, downloaded_len>>
    /\ UNCHANGED <<engineVars, wgcVars, inputVars, final_file, requests, server,
                   policyVars, clock,
                   dret>>

\* mutant of Retryable: every error of a try is retried
RetryableAlways(e) == TRUE

\* the arm Err(error::Error::DownloadHTTP { source, backtrace })
Retryable(e) == e = "DownloadHTTP"

\* |i| i.elapsed() <= Duration::from_secs(60)
WithinWindow(i, now) == now - i <= WindowSecs

\* retries_last_min.drain_filter(..).collect(): the instants the filter keeps
RetriesKept(v, now) == SelectSeq(v, LAMBDA i : WithinWindow(i, now))

\* mutant of TooManyRetries: the limit is one higher
TooManyRetriesLate(n, retries) == n > retries + 1

\* retries_last_min.len() > task.options.retries
TooManyRetries(n, retries) == n > retries

\* mutant of TryOk: a try cut off by a transport error counts as done
TryOkOrCutOff(r) == r \in {"Ok", "DownloadHTTP"}

\* the arm Ok(()) of the match
TryOk(r) == r = "Ok"

\* match Downloader::download_single_try(..).await
DlMatch ==
    /\ dpc = "match"
    /\ try_result' = "none"
    /\ CASE TryOk(try_result) ->
              dpc' = "rename" /\ UNCHANGED <<retries_last_min, dret>>
         [] ~TryOk(try_result) /\ Retryable(try_result) ->
              /\ retries_last_min' = RetriesKept(retries_last_min, clock)
              /\ IF TooManyRetries(Len(retries_last_min'), options.retries)
                   THEN DlReturn(try_result)
                   ELSE dpc' = "sleep" /\ UNCHANGED dret
         [] OTHER ->
              DlReturn(try_result) /\ UNCHANGED retries_last_min
    /\ UNCHANGED <<engineVars, wgcVars, inputVars, diskVars, downloaded_len, body,
                   requests, server,
                   events, tries, clock>>

\* drop(file); fs::rename(path_part, path).await.context(error::DownloadIO)?
DlRename(res) ==
    /\ dpc = "rename"
    /\ IF res = "Ok"
         THEN /\ final_file' = part_file
              /\ part_file' = NoFile
              /\ events' = Append(events, Ev("rename", clock))
              /\ DlReturn("Success")
         ELSE /\ events' = Append(events, Ev("DownloadIO", clock))
              /\ DlReturn("DownloadIO")
              /\ UNCHANGED diskVars
    /\ UNCHANGED <<engineVars, wgcVars, inputVars, tryVars, requests, server,
                   policyVars, clock>>

\* tokio::time::sleep(Duration::from_secs(5)).await
DlSleep ==
    /\ dpc = "sleep"
    /\ tries < MaxTries
    /\ clock' = clock + BackoffSecs
    /\ events' = Append(events, Ev("sleep", clock))
    /\ dpc' = "rebuild"
    /\ UNCHANGED <<engineVars, wgcVars, inputVars, diskVars, tryVars, requests,
                   server, policyVars,
                   dret>>

\* request = task.build_request(&client)?; retries_last_min.push(Instant::now());
\* tries += 1
DlRebuild(res) ==
    /\ dpc = "rebuild"
    /\ IF res = "Ok"
         THEN /\ retries_last_min' = Append(retries_last_min, clock)
              /\ tries' = tries + 1
              /\ dpc' = "seek"
              /\ UNCHANGED <<dret, events>>
         ELSE /\ DlReturn("BuildRequest")
              /\ events' = Append(events, Ev("BuildRequest", clock))
              /\ UNCHANGED policyVars
    /\ UNCHANGED <<engineVars, wgcVars, inputVars, diskVars, tryVars, requests,
                   server, clock>>

\* the .await points of download and download_single_try
DlAwaitPoints == {"head_wait", "mkdir", "open", "seek", "response", "chunk", "rename", "sleep"}

\* the execution is aborted (JoinHandle::abort at teardown): the future is
\* dropped at the await it is suspended at
DlAbort ==
    /\ dpc \in DlAwaitPoints
    /\ DlReturn("Aborted")
    /\ events' = Append(events, Ev("Aborted", clock))
    /\ UNCHANGED <<engineVars, wgcVars, inputVars, diskVars, tryVars, requests,
                   server, policyVars,
                   clock>>

\* one task's download, with every outcome of its requests and file operations
NextDownload ==
    \/ DlCheckPath
    \/ \E res \in BuildResults : DlBuild(res)
    \/ DlResolve
    \/ \E res \in HeadResults : DlHeadResponse(res)
    \/ DlSkipCheck
    \/ \E res \in FsResults : DlMkdir(res)
    \/ \E res \in FsResults : DlOpen(res)
    \/ \E res \in FsResults : DlSeek(res)
    \/ DlExecute
    \/ \E kind \in ResponseKinds : \E d \in AttemptSecs : DlResponse(kind, d)
    \/ \E res \in ChunkResults : DlChunk(res)
    \/ DlMatch
    \/ \E res \in FsResults : DlRename(res)
    \/ DlSleep
    \/ \E res \in BuildResults : DlRebuild(res)
    \/ DlAbort

(* ------------------------- the WaitGroup alone -------------------------- *)
\* WaitGroup::new(), with the waiters W about to await a clone each and the
\* clients about to call add(1) and later done()
InitWaitGroup(W) ==
    /\ wg_num = 0
    /\ wg_waker = NoWaiter
    /\ wpc = [w \in Waiters |-> IF w \in W THEN "idle" ELSE "off"]
    /\ wnotified = {}
    /\ cpc = [c \in Clients |-> "idle"]
    /\ EngineInit({}, {Rotation(0)})
    /\ DownloadOff

\* add(1): num.fetch_add(1)
WgAdd(c) ==
    /\ cpc[c] = "idle"
    /\ wg_num' = wg_num + 1
    /\ cpc' = [cpc EXCEPT ![c] = "added"]
    /\ UNCHANGED <<engineVars, dlVars, wg_waker, wpc, wnotified>>

\* mutant of DoneWakes: the value fetch_sub returned is compared with 0
DoneWakesOnOld(old) == old = 0

\* done: if num.fetch_sub(1) - 1 == 0
DoneWakes(old) == old - 1 = 0

\* done, first half: num.fetch_sub(1) and the test of its result
WgDoneSub(c) ==
    /\ cpc[c] = "added"
    /\ wg_num' = wg_num - 1
    /\ cpc' = [cpc EXCEPT ![c] = IF DoneWakes(wg_num) THEN "wake" ELSE "finished"]
    /\ UNCHANGED <<engineVars, dlVars, wg_waker, wpc, wnotified>>

\* done, second half: waker.wake() takes the registered waker, if there is
\* one, and wakes it
WgDoneWake(c) ==
    /\ cpc[c] = "wake"
    /\ wnotified' = IF wg_waker = NoWaiter THEN wnotified ELSE wnotified \cup {wg_waker}
    /\ wg_waker' = NoWaiter
    /\ cpc' = [cpc EXCEPT ![c] = "finished"]
    /\ UNCHANGED <<engineVars, dlVars, wg_num, wpc>>

\* the executor polls a waiter: for the first time, or because its waker
\* was woken since it returned Pending
WgPoll(w) ==
    /\ \/ wpc[w] = "idle"
       \/ wpc[w] = "pending" /\ w \in wnotified
    /\ wnotified' = wnotified \ {w}
    /\ wpc' = [wpc EXCEPT ![w] = "load"]
    /\ UNCHANGED <<engineVars, dlVars, wg_num, wg_waker, cpc>>

\* poll: if num.load() == 0 { return Poll::Ready(()) }
WgLoad(w) ==
    /\ wpc[w] = "load"
    /\ wpc' = [wpc EXCEPT ![w] = IF PollReady(wg_num) THEN "ready" ELSE "register"]
    /\ UNCHANGED <<engineVars, dlVars, wg_num, wg_waker, wnotified, cpc>>

\* poll: waker.register(cx.waker()): the AtomicWaker holds one waker, the
\* one registered last
WgRegister(w) ==
    /\ wpc[w] = "register"
    /\ wg_waker' = w
    /\ wpc' = [wpc EXCEPT ![w] = "recheck"]
    /\ UNCHANGED <<engineVars, dlVars, wg_num, wnotified, cpc>>

\* poll: if num.load() == 0 { Poll::Ready(()) } else { Poll::Pending }
WgRecheck(w) ==
    /\ wpc[w] = "recheck"
    /\ wpc' = [wpc EXCEPT ![w] = IF PollReady(wg_num) THEN "ready" ELSE "pending"]
    /\ UNCHANGED <<engineVars, dlVars, wg_num, wg_waker, wnotified, cpc>>

\* the WaitGroup used by the clients and awaited by the waiters W
NextWaitGroup(W) ==
    \/ \E c \in Clients : WgAdd(c)
    \/ \E c \in Clients : WgDoneSub(c)
    \/ \E c \in Clients : WgDoneWake(c)
    \/ \E w \in W : WgPoll(w)
    \/ \E w \in W : WgLoad(w)
    \/ \E w \in W : WgRegister(w)
    \/ \E w \in W : WgRecheck(w)

(* ---------------------------- specification ---------------------------- *)
\* the engine at work, with the callers S of send_one / send
Working(S) ==
    \/ \E s \in S : \E t \in TaskIds : SendOneCall(s, t)
    \/ \E s \in S : \E b \in Batches(unsent) : SendCall(s, b)
    \/ \E s \in S : SendLock(s)
    \/ \E s \in S : SendPut(s)
    \/ \E s \in S : SendAdd(s)
    \/ LoopRecv
    \/ LoopAcquire
    \/ LoopInsertRunning
    \/ LoopInsertPending
    \/ \E t \in TaskIds : TaskStart(t)
    \/ \E t \in TaskIds : TaskDownload(t)
    \/ \E t \in TaskIds : TaskFinish(t)
    \/ \E t \in TaskIds : TaskPop(t)
    \/ \E t \in TaskIds : TaskLockSender(t)
    \/ \E t \in TaskIds : TaskResend(t)
    \/ \E t \in TaskIds : TaskRemoveRunning(t)
    \/ \E t \in TaskIds : TaskDone(t)
    \/ \E t \in TaskIds : TaskEnd(t)

\* the steps every run has: the engine at work, wait() and teardown
Core(S) ==
    \/ Working(S)
    \/ LoopCancel
    \/ \E t \in TaskIds : TaskCancel(t)
    \/ WaitCall
    \/ WaitPollLoad
    \/ WaitPollRegister
    \/ WaitPollRecheck
    \/ WaitWoken
    \/ WaitReturnDrop
    \/ EarlyDrop

\* tasks created with hooks: None
Next ==
    \/ Core(Submitters)
    \/ \E t \in TaskIds : TaskHookCall(t, FALSE)

\* tasks created with both on_success and on_error, sent by one caller
NextHooks ==
    \/ Core({1})
    \/ \E t \in TaskIds : TaskHookCall(t, TRUE)
    \/ \E t \in TaskIds : \E res \in HookResults : TaskHookReturn(t, res)

\* the engine kept alive by its owner: no wait(), no Drop
NextQueue ==
    \/ Working({1})
    \/ \E t \in TaskIds : TaskHookCall(t, FALSE)

\* NumTasks tasks without hooks
Spec == Init /\ [][Next]_vars
\* BurstTasks tasks without hooks
SpecBurst == InitBurst /\ [][Next]_vars
\* QueueTasks tasks without hooks sent by one caller to an engine that stays alive
SpecQueue == InitQueue /\ [][NextQueue]_vars
\* HookTasks tasks that carry on_success and on_error hooks
SpecHooks == InitHooks /\ [][NextHooks]_vars
\* Downloader::download run for one task
SpecDownload == InitDownload /\ [][NextDownload]_vars
\* one WaitGroup awaited by a single waiter, as Downloader::wait does
SpecWaitGroup == InitWaitGroup({1}) /\ [][NextWaitGroup({1})]_vars
\* one WaitGroup awaited by NumWaiters waiters through clones
SpecWaiters == InitWaitGroup(Waiters) /\ [][NextWaitGroup(Waiters)]_vars

(* ------------------------------- claims -------------------------------- *)
\* the tasks a send_one / send call has put into the intake channel
Submitted == {t \in TaskIds : tpc[t] \notin {"none", "created"}}

\* wait() was called and has not returned
Waiting == mpc \in {"poll", "register", "recheck", "suspended"}

\* C1: the number of entries of tasks_running never exceeds the concurrency
\* limit K (Threads).
C1_RunningAtMostK == Cardinality(tasks_running) <= Threads

\* C2: whenever wait() has returned, every task that a send_one / send call
\* put into the channel before wait() was called is recorded in
\* tasks_finished with a terminal status.
C2_WaitReturnsAfterAllTerminal ==
    mpc \in {"returned", "waited"} =>
        \A t \in Submitted : tasks_finished[t] \in Terminal /\ status[t] = tasks_finished[t]

\* C2 witness: wait() returned after all NumTasks tasks were submitted, one
\* of which had waited in tasks_pending and was sent to the channel again
C2_Witness ==
    /\ mpc = "returned"
    /\ Cardinality(Submitted) >= NumTasks
    /\ resent # {}

\* C3: while a wait() is outstanding the system can always take a step, so
\* the wait is never left suspended with nothing able to complete the
\* remaining tasks.
C3_WaitNeverStuck == Waiting => ENABLED Next

\* the tasks that wait for a permit: those in tasks_pending and those popped
\* from it that are on their way back to the admission loop
WaitingForPermit ==
    tasks_pending
      \cup {popped[t] : t \in {u \in TaskIds : popped[u] # NoTask}}
      \cup {chan[i] : i \in {j \in 1 .. Len(chan) : chan[j] \in resent}}

\* the admission loop's step admits the task it holds (it got a permit)
Admits == lpc = "acquire" /\ lpc' = "insert"

\* C4: whenever the admission loop admits a task, no task with a smaller id
\* is waiting for a permit at that moment.
C4_LowestIdFirst == [][Admits => \A w \in WaitingForPermit : w > lcur]_vars

\* the popped tasks a permit was dropped for and that the admission loop has
\* not received yet
FreedFor ==
    {popped[t] : t \in {u \in TaskIds : tpc[u] = "resend"}}
      \cup {chan[i] : i \in {j \in 1 .. Len(chan) : chan[j] \in resent}}

\* C5: once a finishing task has dropped its permit for the task it popped,
\* that popped task is the next one the admission loop receives, and it is
\* admitted when received.
C5_FreedPermitGoesToPopped ==
    [][/\ (lpc = "recv" /\ lpc' = "acquire" /\ FreedFor # {}) => lcur' \in FreedFor
       /\ (lpc = "acquire" /\ lpc' # "acquire" /\ lcur \in resent /\ ~semClosed) => Admits]_vars

\* the partitions of the Status Store that hold id t
PartitionsOf(t) ==
    (IF t \in tasks_pending THEN {"pending"} ELSE {})
      \cup (IF t \in tasks_running THEN {"running"} ELSE {})
      \cup (IF tasks_finished[t] # Absent THEN {"finished"} ELSE {})

\* C6 as claimed: every submitted task's id is a key of exactly one of
\* tasks_pending, tasks_running, tasks_finished.
C6_ExactlyOnePartition == \A t \in Submitted : Cardinality(PartitionsOf(t)) = 1

\* the task is on its way to or from the admission loop: in the channel,
\* held by the loop (also right after the spawn, before the handle is
\* inserted), or popped by a finishing task
InTransit(t) ==
    \/ \E i \in 1 .. Len(chan) : chan[i] = t
    \/ lcur = t
    \/ \E u \in TaskIds : popped[u] = t

\* C6 amended: an id in tasks_pending is in neither tasks_running nor
\* tasks_finished and its task was never started; an id is in two partitions
\* only as running and finished; and until teardown an id in no partition
\* belongs to a task in transit.
C6_PendingDisjoint ==
    \A t \in Submitted :
        /\ t \in tasks_pending => PartitionsOf(t) = {"pending"} /\ tpc[t] = "queued"
        /\ Cardinality(PartitionsOf(t)) = 2 => PartitionsOf(t) = {"running", "finished"}
        /\ (PartitionsOf(t) = {} /\ ~semClosed) => InTransit(t)

\* C6 witness: one task is completing (in tasks_running and tasks_finished),
\* another is in tasks_pending
C6_Witness ==
    \E t, u \in Submitted :
        /\ PartitionsOf(t) = {"running", "finished"}
        /\ PartitionsOf(u) = {"pending"}

\* a legal move of a status field
StatusStep(a, b) ==
    \/ a = b
    \/ a = "Pending" /\ b = "Running"
    \/ a = "Running" /\ b \in Terminal

\* C7: a task's status only moves Pending -> Running -> {Success, Skipped,
\* Error}, and the status stored in tasks_finished is terminal and never
\* changes.
C7_StatusMonotonic ==
    [][\A t \in TaskIds :
          /\ StatusStep(status[t], status'[t])
          /\ tasks_finished[t] # Absent => tasks_finished'[t] = tasks_finished[t]
          /\ tasks_finished'[t] # Absent => tasks_finished'[t] \in Terminal]_vars

\* C7 witness: a task that had waited in tasks_pending and was sent through
\* the channel again has reached a terminal status
C7_Witness == \E t \in resent : status[t] \in Terminal /\ tasks_finished[t] = status[t]

\* the status a task ends in, once it has one
Ended(t, st) == status[t] \in Terminal => status[t] = st

\* C8: a task has at most one hook invocation in its lifetime; on_success is
\* invoked only for a task that ends in Success, on_error only for one that
\* ends in Error, and a Skipped task has none.
C8_AtMostOneMatchingHook ==
    \A t \in TaskIds :
        /\ Len(hookCalls[t]) <= 1
        /\ \A i \in 1 .. Len(hookCalls[t]) :
              /\ hookCalls[t][i].hook = "on_success" => outcome[t] = "Success" /\ Ended(t, "Success")
              /\ hookCalls[t][i].hook = "on_error" => outcome[t] = "Err" /\ Ended(t, "Error")
        /\ (status[t] = "Skipped" \/ tasks_finished[t] = "Skipped") => hookCalls[t] = <<>>

\* C8 witness: one task finished as Success after its on_success hook, another
\* finished as Skipped or Error
C8_Witness ==
    \E t, u \in TaskIds :
        /\ tasks_finished[t] = "Success" /\ Len(hookCalls[t]) = 1
        /\ tasks_finished[u] \in {"Skipped", "Error"}

\* C9: the task a hook is called with carries its final status (Success for
\* on_success, Error for on_error), the one later stored in tasks_finished.
C9_HookSeesFinalStatus ==
    \A t \in TaskIds : \A i \in 1 .. Len(hookCalls[t]) :
        /\ hookCalls[t][i].hook = "on_success" => hookCalls[t][i].seen = "Success"
        /\ hookCalls[t][i].hook = "on_error" => hookCalls[t][i].seen = "Error"
        /\ tasks_finished[t] # Absent => hookCalls[t][i].seen = tasks_finished[t]

\* C10: when a task's hook returned an error, the task's status is the one
\* its download decided, it calls waitgroup.done() at most once, and when
\* its execution has ended it is in tasks_finished with that status, holds
\* no permit and has called done() exactly once.
C10_HookErrorIsDiscarded ==
    \A t \in TaskIds :
        hookErrLogged[t] =>
            /\ status[t] = (IF outcome[t] = "Success" THEN "Success" ELSE "Error")
            /\ doneCnt[t] <= 1
            /\ tpc[t] = "ended" =>
                  /\ tasks_finished[t] = status[t]
                  /\ t \notin holds
                  /\ doneCnt[t] = 1

\* C10 witness: a task whose on_success hook returned an error has ended
C10_Witness ==
    \E t \in TaskIds : hookErrLogged[t] /\ tpc[t] = "ended" /\ outcome[t] = "Success"

(* ------------------------- claims on download -------------------------- *)
\* positions in `events` of the given kinds
EventsOf(kinds) == {i \in 1 .. Len(events) : events[i].ev \in kinds}
\* the transfer attempts made (one GET each)
Attempts == EventsOf({"GET"})
\* the body-transfer requests issued
Transfers == {i \in 1 .. Len(requests) : requests[i].method = "GET"}
\* download has returned
Returned == dpc = "returned"

\* C11: when the destination exists at the start and skip_exists is set, no
\* body-transfer request is ever issued and the '.part' file is neither
\* created nor written; with an explicit absolute path no request is issued at all
\* and the result is Skipped, with only a dir the HEAD probe is the only
\* request and the result is Skipped whenever the path could be resolved.
C11_SkipExisting ==
    (disk0.final.exists /\ options.skip_exists /\ options.path # "relative") =>
        /\ Transfers = {}
        /\ part_file = disk0.part
        /\ options.path = "absolute" => requests = <<>> /\ dret \in {"none", "Skipped"}
        /\ options.path = "none" =>
              /\ Len(requests) <= 1
              /\ (Returned /\ EventsOf({"HEAD"}) = 1 .. Len(events)) => dret = "Skipped"

\* C11 witness: a task with only a dir was skipped after its HEAD probe, with
\* a '.part' file of an earlier run left as it was
C11_Witness ==
    /\ dret = "Skipped"
    /\ Len(requests) = 1
    /\ disk0.part.exists
    /\ part_file = disk0.part

\* the transfer attempts that failed with the retryable error: a
\* DownloadHTTP event with a GET before it
AttemptFailures == {j \in EventsOf({"DownloadHTTP"}) : \E i \in Attempts : i < j}
\* the attempts made within the 60 seconds before event j
AttemptsInWindow(j) == {i \in Attempts : i < j /\ events[j].at - events[i].at <= WindowSecs}
\* event j is the last thing the download did before it returned, or before
\* the match that makes it return
EndsDownload(j, r) ==
    /\ j = Len(events)
    /\ dpc \in {"match", "returned"}
    /\ Returned => dret = r

\* C12: when a transfer attempt fails with the retryable error and more than
\* `retries` attempts were made within the last 60 seconds, the download
\* ends in Error with that failure and does nothing more; it ends with that
\* error only then; and a download whose last step was the rename after a
\* successful attempt returns Success.
C12_RetryThreshold ==
    /\ \A j \in AttemptFailures :
          /\ Cardinality(AttemptsInWindow(j)) > options.retries => EndsDownload(j, "DownloadHTTP")
          /\ (j = Len(events) /\ Returned) => Cardinality(AttemptsInWindow(j)) > options.retries
    /\ (Returned /\ Len(events) > 0 /\ events[Len(events)].ev = "rename") => dret = "Success"
    /\ dret = "Success" => events[Len(events)].ev = "rename"

\* C12 witness: with retries >= 1 the download returned the error of its last
\* attempt after more than `retries` failures, one attempt having dropped out
\* of the window
C12_Witness ==
    /\ dret = "DownloadHTTP"
    /\ options.retries >= 1
    /\ AttemptFailures # {}
    /\ Cardinality(AttemptFailures) > options.retries + 1

\* C12 second case: a download with fewer than `retries` failed attempts
\* returned Success
C12_SuccessAfterFailure ==
    /\ dret = "Success"
    /\ AttemptFailures # {}
    /\ Cardinality(AttemptFailures) < options.retries

\* every attempt made so far was answered with a non-2xx status
AllAttemptsGotStatus ==
    /\ Attempts # {}
    /\ \A i \in Attempts : i < Len(events) /\ events[i + 1].ev = "DownloadHTTPStatus"

\* C13: a task with retries >= 1 whose every attempt is answered with a
\* non-2xx status is retried (it makes more than one attempt) and ends in
\* Error carrying the status.
C13_StatusErrorIsRetried ==
    (Returned /\ options.retries >= 1 /\ AllAttemptsGotStatus) =>
        /\ dret = "DownloadHTTPStatus"
        /\ Cardinality(Attempts) > 1

\* every attempt made so far has failed with a transport error, and all of
\* it happened within one minute
AllAttemptsFailedInAMinute ==
    /\ Attempts # {}
    /\ \A i \in Attempts : \E j \in AttemptFailures : j > i /\ (j - 1 = i \/ events[j - 1].ev = "write")
    /\ clock <= WindowSecs

\* C14: a task with retries >= 1 whose attempts all fail with a network error
\* within one minute makes at most `retries` attempts.
C14_AtMostRetriesTries ==
    (options.retries >= 1 /\ AllAttemptsFailedInAMinute) =>
        Cardinality(Attempts) <= options.retries

\* the errors that are permanent
PermanentErrors == {"DownloadPathNotAbsolute", "DownloadPathNotSet", "DownloadIO"}

\* C15: a path-resolution error or a failed filesystem operation is the last
\* thing the download does: it returns that error with no further request,
\* write or sleep; when the path is relative, or neither path nor dir is
\* set, no request was issued and the '.part' file was not touched.
C15_PermanentNotRetried ==
    /\ \A j \in EventsOf(PermanentErrors) : EndsDownload(j, events[j].ev)
    /\ (dret = "DownloadPathNotAbsolute" \/ (dret = "DownloadPathNotSet" /\ ~options.dir)) =>
          requests = <<>> /\ part_file = disk0.part
    /\ (Returned /\ (options.path = "relative" \/ (options.path = "none" /\ ~options.dir))) =>
          dret \in {"DownloadPathNotAbsolute", "DownloadPathNotSet", "BuildRequest"}

\* C15 witness: a filesystem error in a retried attempt ended the download
C15_Witness ==
    /\ dret = "DownloadIO"
    /\ EventsOf({"sleep"}) # {}
    /\ EventsOf({"write"}) # {}

\* C16: every transfer request carries Range: bytes=B- exactly when the
\* '.part' file holds B > 0 bytes at that moment, B being its whole length,
\* and carries no Range header when the file is empty.
C16_RangeIsPartLength ==
    \A i \in Transfers :
        requests[i].range =
            (IF requests[i].part_len > 0 THEN <<"bytes", requests[i].part_len>> ELSE NoRange)

\* C16 witness: a retry asked for the bytes after those an earlier run and an
\* earlier attempt of this run had left
C16_Witness ==
    \E i \in Transfers :
        /\ i > 1
        /\ disk0.part.exists
        /\ Len(disk0.part.bytes) > 0
        /\ requests[i].part_len > Len(disk0.part.bytes)
        /\ requests[i].range = <<"bytes", requests[i].part_len>>

\* the last transfer request issued
LastTransfer == requests[Len(requests)]
\* the bytes of file f from offset n on
From(f, n) == SubSeq(f.bytes, n + 1, Len(f.bytes))

\* C17: if the final path did not exist when the task started, it either
\* still does not exist or it came about through the rename that follows a
\* successful attempt, and holds, after the bytes the '.part' file had when
\* the last request was sent, the whole body of that request's response.
C17_FinalIsComplete ==
    ~disk0.final.exists =>
        \/ final_file = NoFile
        \/ /\ dret = "Success"
           /\ part_file = NoFile
           /\ events[Len(events)].ev = "rename"
           /\ LastTransfer.method = "GET"
           /\ \E mode \in ServerModes :
                 From(final_file, LastTransfer.part_len) = ResponseBody(LastTransfer.range, mode)

\* C17 witness: the final file appeared after an attempt that was cut off
\* after writing part of the body
C17_Witness ==
    /\ ~disk0.final.exists
    /\ final_file.exists
    /\ \E j \in AttemptFailures : events[j - 1].ev = "write"

\* an aborted download leaves a half-written '.part' file and no final file
C17_AbortedMidTransfer ==
    /\ dret = "Aborted"
    /\ ~disk0.final.exists
    /\ part_file.exists
    /\ Len(part_file.bytes) > Len(disk0.part.bytes)

(* ----------------------- claims on the WaitGroup ------------------------ *)
\* some done() has taken the counter to zero and has not called wake() yet
WakeDue == \E c \in Clients : cpc[c] = "wake"

\* waiter w cannot be left behind: it is not suspended with the counter at
\* zero unless its waker was woken or a wake() that will wake it is due
NotLeftBehind(w) ==
    (wpc[w] = "pending" /\ wg_num = 0) =>
        \/ w \in wnotified
        \/ wg_waker = w /\ WakeDue

\* C18: with a single waiter, for every interleaving of its poll (load,
\* register, load) with done() calls (fetch_sub, wake), the waiter is never
\* suspended while the counter is zero without having been woken or being
\* about to be woken.
C18_NoLostWakeup == NotLeftBehind(1)

\* C18 witness: the waiter registered and was suspended, a done() then took
\* the counter to zero and woke it
C18_Witness ==
    /\ wpc[1] = "pending"
    /\ 1 \in wnotified
    /\ wg_num = 0
    /\ \A c \in Clients : cpc[c] = "finished"

\* C19: with several waiters, a done() that takes the counter to zero wakes
\* every waiter registered at that moment (none stays suspended at zero),
\* and a waiter whose poll finds the counter at zero completes in that poll.
C19_EveryWaiterWoken == \A w \in Waiters : NotLeftBehind(w)

(* --------------------------- claims on drain --------------------------- *)
\* a caller can start a send_one for a task it has created
CanSubmit == ENABLED (\E s \in Submitters : \E t \in TaskIds : SendOneCall(s, t))

\* C20: after a wait() has returned the engine is not torn down (semaphore
\* open, admission loop not aborted) and tasks that were not submitted yet
\* can still be submitted.
C20_DrainIsRepeatable ==
    mpc = "waited" =>
        /\ ~semClosed
        /\ ~labort
        /\ unsent # {} => CanSubmit

(* -------------------------- claims on teardown -------------------------- *)
\* task executions that move in this step
Stepping == {t \in TaskIds : tpc'[t] # tpc[t]}

\* C21: once Drop has run the admission loop admits no further task, and every
\* task execution that still moves is one whose handle Drop aborted: no
\* execution spawned before or during teardown runs on unaborted
C21_TeardownAbortsEveryExecution ==
    [][labort => ~Admits /\ Stepping \subseteq aborted]_vars

(* ------------------------ claims on the intake path --------------------- *)
TheLoop == <<"loop", 0>>
Nobody == <<"nobody", 0>>
Processes == {TheLoop} \cup {ByTask(t) : t \in TaskIds} \cup {BySubmitter(s) : s \in Submitters}

\* a sender waiting for a free slot of the channel waits for the loop's recv
ChannelFull == Len(chan) >= ChanCap

\* the process p is waiting for, at its await on the tasks_pending write lock,
\* the task_sender mutex or a slot of the channel; Nobody when p can go on
WaitsOn(p) ==
    IF p = TheLoop
      THEN IF lpc = "pend" /\ pendLock # Free THEN pendLock ELSE Nobody
    ELSE IF p[1] = "task"
      THEN CASE tpc[p[2]] = "pop" /\ pendLock # Free -> pendLock
             [] tpc[p[2]] = "lock_sender" /\ task_sender # Free -> task_sender
             [] tpc[p[2]] = "resend" /\ lpc # "stopped" /\ ChannelFull -> TheLoop
             [] OTHER -> Nobody
    ELSE CASE spc[p[2]] = "lock" /\ task_sender # Free -> task_sender
           [] spc[p[2]] = "send" /\ ChannelFull -> TheLoop
           [] OTHER -> Nobody

RECURSIVE WaitChain(_, _)
\* following n waits from p never ends at a process that can go on
WaitChain(p, n) ==
    IF n = 0 THEN TRUE ELSE WaitsOn(p) # Nobody /\ WaitChain(WaitsOn(p), n - 1)

\* p waits, directly or through others, for itself
InWaitCycle(p) == WaitChain(p, Cardinality(Processes) + 1)

\* C28: a submitter, the admission loop and a finishing task never wait for
\* each other in a cycle over the tasks_pending write lock, the task_sender
\* mutex and the capacity-1 channel
C28_NoWaitCycle == \A p \in Processes : ~InWaitCycle(p)

\* a send_one / send call that has not returned yet
Sending == {s \in Submitters : spc[s] # "idle"}

\* C22: a send_one / send call never blocks for good: while a call is in
\* progress and the engine is not torn down, some step of the engine or of
\* the call can still be taken
C22_SendNeverStuck == Sending # {} => ENABLED NextQueue

\* a send(tasks) call that has put some but not all of its tasks
MidBatch(s) == scall[s].kind = "batch" /\ scall[s].i > 1 /\ spc[s] \in {"lock", "send"}

\* this step puts task x into the intake channel
Puts(x) == chan' = Append(chan, x)

RangesHonoured ==
    \A b \in 1 .. (SrcLen - 1) :
        ResponseBody(<<"bytes", b>>, server) = SubSeq(Source, b + 1, SrcLen)

\* C24: when the download returned Success and the server honours the
\* Range headers it is sent, the final file is the source, byte for byte,
\* however many attempts were cut off and wherever they were cut off
C24_ResumePreservesContent ==
    dret = "Success" /\ RangesHonoured => final_file = File(Source)

\* C24 witness: Success after an attempt of this run was cut off part-way
\* through the body and the retry was answered from the offset it asked for
C24_Witness ==
    /\ dret = "Success"
    /\ RangesHonoured
    /\ \E j \in AttemptFailures : events[j - 1].ev = "write"
    /\ \E i \in Transfers : requests[i].range # NoRange
    /\ final_file = File(Source)

(* ------------------------ claims on what is left ------------------------ *)
\* download returned a value, which the task execution turns into a
\* terminal status (an aborted download returns nothing)
EndedTerminal == Returned /\ dret # "Aborted"

\* C25: once the task is terminal, whatever its status, no '.part' file of
\* it is on disk; stated for a task that found no '.part' file when it
\* started, so that any such file is one this run made
C25_NoPartFileLeft ==
    EndedTerminal /\ ~disk0.part.exists => ~part_file.exists

\* the requests, HEAD probe included, sent within the 60 seconds before event j
RequestsInWindow(j) ==
    {i \in EventsOf({"HEAD", "GET"}) : i < j /\ events[j].at - events[i].at <= WindowSecs}

\* C26: a transport failure of any request of the task, the HEAD probe as
\* well as a body transfer, ends the download in Error only when more than
\* `retries` requests were made within the last 60 seconds
C26_TransportFailureUnderPolicy ==
    \A j \in EventsOf({"DownloadHTTP"}) :
        EndsDownload(j, "DownloadHTTP") /\ Returned =>
            Cardinality(RequestsInWindow(j)) > options.retries

(* ------------------------- claims on the engine ------------------------- *)
\* the task executions that were spawned and have not ended
Executing == {t \in TaskIds : tpc[t] \notin {"none", "created", "queued", "ended", "cancelled"}}

\* nothing is in progress: no execution, nothing in the channel, the loop
\* back at recv, and the engine not torn down
Quiescent == Executing = {} /\ chan = <<>> /\ lpc = "recv" /\ ~labort

\* C27: in a quiescent state tasks_pending is empty: a task is never left
\* there with no running task to pop it
C27_NoStrandedTask == Quiescent => tasks_pending = {}

\* C29: WaitGroup::done never runs while the counter is 0: the add that
\* follows a task's channel put comes before that task's decrement
C29_DoneNeverAtZero == [][num' < num => num > 0]_vars

\* C30: at most K executions hold a permit, the permits held and the permits
\* available add up to K, and only an execution that has not ended holds
\* one: every execution gives its permit back once, whether at drop(permit)
\* before a re-queue or at the end of its future
C30_PermitAccounting ==
    /\ Cardinality(holds) <= Threads
    /\ permits + Cardinality(holds) = Threads
    /\ holds \subseteq Executing

\* C30 witness: all permits are back after one execution gave its permit up
\* to re-queue a pending task and the re-queued task ran to its end
C30_Witness ==
    /\ permits = Threads
    /\ \E t \in TaskIds : \E u \in resent :
          t # u /\ tpc[t] = "ended" /\ tpc[u] = "ended"

(* ------------------------ claims on completion order -------------------- *)
\* this step is task t's waitgroup.done()
Decrements(t) == tpc[t] = "done" /\ tpc'[t] = "end"

\* the positions of an execution that has not finished its hook
BeforeHookEnd == {"start", "download", "on_error", "on_success", "in_hook"}

\* C31: a task's waitgroup decrement comes after its hook has finished,
\* after the task was inserted into tasks_finished and after it was removed
\* from tasks_running: at the decrement the task is recorded as finished
\* and is no longer recorded as running
C31_DecrementAfterCompletion ==
    [][\A t \in TaskIds :
          Decrements(t) =>
              /\ tpc[t] \notin BeforeHookEnd
              /\ tasks_finished[t] \in Terminal
              /\ t \notin tasks_running]_vars

\* the part of C31 that stands: at the decrement the hook has returned and
\* the task is in tasks_finished, and once wait() has returned no submitted
\* task is still before the end of its hook
C31_HooksDoneAtDecrementAndReturn ==
    /\ \A t \in TaskIds : tpc[t] \in {"done", "end", "ended"} =>
           tasks_finished[t] \in Terminal /\ (outcome[t] # "Skipped" => hookCalls[t] # <<>>)
    /\ mpc \in {"returned", "waited"} =>
           \A t \in Submitted : tpc[t] \notin BeforeHookEnd


============================================================================
